---------------------------- MODULE Spec2Model ----------------------------
(***************************************************************************)
(* A model of freedv_mixed_tx.c: the transmit demo that mixes VHF packet   *)
(* data and speech frames.                                                 *)
(*                                                                         *)
(*   - eth_ar_call2mac : callsign + ssid + multicast -> 6 byte MAC         *)
(*   - my_datatx       : the data channel callback (packet generator)      *)
(*   - samples_get_energy and the main loop of main()                      *)
(*                                                                         *)
(* Characters are ASCII codes, C strings are sequences of codes (without   *)
(* the terminating 0), bytes are 0..255 and a uint64_t is a sequence of    *)
(* 8 bytes, least significant first (the values exceed TLC's integers).    *)
(***************************************************************************)
EXTENDS Integers, Sequences, FiniteSets, TLC

VARIABLES
    pc,             \* position of the program
    argv,           \* argv[1..argc-1] of main
    mode,           \* main: mode
    fin,            \* main: fin  ("none", "stdin", "file")
    fout,           \* main: fout ("none", "stdout", "file")
    use_codectx,    \* main: use_codectx
    callsign,       \* main: callsign (argument of eth_ar_call2mac)
    ssid,           \* main: ssid
    multicast,      \* main: multicast
    data_threshold, \* main: data_threshold
    mac,            \* my_cb_state.mac
    calls,          \* my_cb_state.calls
    ret,            \* the value eth_ar_call2mac returned ("none" before)
    header,         \* the address given to freedv_set_data_header
    data_type,      \* my_datatx: static int data_type
    avail,          \* *size on entry of the last my_datatx call
    packet,         \* the bytes the last my_datatx call stored in packet[]
    size,           \* *size on return of the last my_datatx call
    ncalls,         \* number of my_datatx calls so far (capped, observer)
    in_stream,      \* the samples of the input stream
    in_pos,         \* samples of the input stream consumed so far
    speech_in,      \* main: speech_in[] (the last block read)
    energy,         \* <<numerator, denominator>> of the last energy score
    decision,       \* path taken for the last block
    mod_out,        \* main: mod_out[] (the last modem block produced)
    out_stream,     \* the modem blocks written to fout
    unflushed,      \* blocks written to fout and not yet flushed
    reads,          \* number of fread calls so far
    diag,           \* what was printed: sequence of <<stream, message>>
    exit_status,    \* process exit status ("none" while running)
    heap            \* main's buffers: those live, allocations and releases

vars == <<pc, argv, mode, fin, fout, use_codectx, callsign, ssid, multicast,
          data_threshold, mac, calls, ret, header, data_type, avail, packet,
          size, ncalls, in_stream, in_pos, speech_in, energy, decision,
          mod_out, out_stream, unflushed, reads, diag, exit_status, heap>>

(***************************************************************************)
(* Bounds of the model.                                                    *)
(***************************************************************************)
\* generated callsigns have at most this many characters
MaxCallLen == 2
\* width in bits of the model's C int (stands for 32)
IntBits == 4
\* the input stream holds at most this many samples
MaxSamples == 4

IntMax == 2^(IntBits - 1) - 1
IntMin == -(2^(IntBits - 1))
CInt == IntMin..IntMax

(***************************************************************************)
(* Bytes and bit operations.                                               *)
(***************************************************************************)
Byte == 0..255

RECURSIVE BitAnd(_, _)
\* x & y on naturals
BitAnd(x, y) ==
    IF x = 0 \/ y = 0 THEN 0
    ELSE (IF x % 2 = 1 /\ y % 2 = 1 THEN 1 ELSE 0)
         + 2 * BitAnd(x \div 2, y \div 2)

RECURSIVE BitOr(_, _)
\* x | y on naturals
BitOr(x, y) ==
    IF x = 0 THEN y
    ELSE IF y = 0 THEN x
    ELSE (IF x % 2 = 1 \/ y % 2 = 1 THEN 1 ELSE 0)
         + 2 * BitOr(x \div 2, y \div 2)

\* uint64_t 0
U64Zero == [k \in 1..8 |-> 0]

\* byte k (0 = least significant) of a uint64_t, 0 beyond the width
U64Byte(a, k) == IF k >= 0 /\ k <= 7 THEN a[k + 1] ELSE 0

RECURSIVE U64MulAddFrom(_, _, _, _)
\* bytes k..7 of a * m + carry, as a sequence (the carry out of byte 7 is
\* dropped: unsigned arithmetic modulo 2^64)
U64MulAddFrom(a, m, carry, k) ==
    IF k > 7 THEN <<>>
    ELSE LET v == U64Byte(a, k) * m + carry
         IN  <<v % 256>> \o U64MulAddFrom(a, m, v \div 256, k + 1)

\* a * m + c for small m and c
U64MulAdd(a, m, c) == U64MulAddFrom(a, m, c, 0)

\* a >> n
U64Shr(a, n) ==
    LET q == n \div 8
        r == n % 8
    IN  [k \in 1..8 |->
            (U64Byte(a, k - 1 + q) \div (2^r))
            + (U64Byte(a, k + q) % (2^r)) * (2^(8 - r))]

\* a & m for a mask m < 256: only the low byte can be non zero
U64AndLow(a, m) == BitAnd(U64Byte(a, 0), m)

(***************************************************************************)
(* eth_ar_call2mac                                                         *)
(***************************************************************************)
\* static char alnum2code[37]: '0'..'9', 'A'..'Z', 0
alnum2code ==
    <<48, 49, 50, 51, 52, 53, 54, 55, 56, 57,
      65, 66, 67, 68, 69, 70, 71, 72, 73, 74,
      75, 76, 77, 78, 79, 80, 81, 82, 83, 84,
      85, 86, 87, 88, 89, 90, 0>>

\* toupper() in the "C" locale, on ASCII
toupper(c) == IF c >= 97 /\ c <= 122 THEN c - 32 ELSE c

\* strlen()
strlen(s) == Len(s)

\* a variant that looks positions up from the other end: the loop's pass i
\* takes the character of position 7 - i
CallCharReversed(cs, i) ==
    IF 7 - i >= strlen(cs) THEN 0 ELSE toupper(cs[7 - i + 1])

\* the character the loop looks up for position i (0 based)
CallChar(cs, i) == IF i >= strlen(cs) THEN 0 ELSE toupper(cs[i + 1])

RECURSIVE CodeFrom(_, _)
\* the inner loop: the first j >= j0 with alnum2code[j] = c, or 37
CodeFrom(c, j0) ==
    IF j0 >= Len(alnum2code) THEN j0
    ELSE IF alnum2code[j0 + 1] = c THEN j0
    ELSE CodeFrom(c, j0 + 1)

\* the value of j after the inner loop
Code(c) == CodeFrom(c, 0)

RECURSIVE Call2MacLoop(_, _, _)
\* the outer loop from position i down to 0 with accumulator add:
\* [ok |-> FALSE] when a character is rejected, else the final add
Call2MacLoop(cs, i, add) ==
    IF i < 0 THEN [ok |-> TRUE, add |-> add]
    ELSE LET j == Code(CallChar(cs, i))
         IN  IF j = Len(alnum2code) THEN [ok |-> FALSE, add |-> add]
             ELSE Call2MacLoop(cs, i - 1, U64MulAdd(add, 37, j))

\* a variant of the ssid test that lets ssid 16 pass
SsidRejectedOffByOne(s) == s > 16 \/ s < 0

\* the ssid test of line 59
SsidRejected(s) == s > 15 \/ s < 0

\* bool -> int
BoolInt(b) == IF b THEN 1 ELSE 0

\* a variant of mac[0] that takes bits 39..38: add >> (40 - 8)
MacByte0Shift32(add, s, mc) ==
    BitOr(BitOr(BitOr(U64AndLow(U64Shr(add, 40 - 8), 192), s * 4), 2),
          BoolInt(mc))

\* a variant of mac[0] without the multicast bit
MacByte0NoMulticast(add, s, mc) ==
    BitOr(BitOr(U64AndLow(U64Shr(add, 40 - 6), 192), s * 4), 2)

\* mac[0] of line 81
MacByte0(add, s, mc) ==
    BitOr(BitOr(BitOr(U64AndLow(U64Shr(add, 40 - 6), 192), s * 4), 2),
          BoolInt(mc))

\* a variant of mac[1..5] with the mask 0x7f
MacByteNMask7f(add, sh) == U64AndLow(U64Shr(add, sh), 127)

\* mac[1..5] of lines 82-86: (add >> sh) & 0xff
MacByteN(add, sh) == U64AndLow(U64Shr(add, sh), 255)

\* the six bytes written by lines 81-86
MacBytes(add, s, mc) ==
    <<MacByte0(add, s, mc), MacByteN(add, 32), MacByteN(add, 24),
      MacByteN(add, 16), MacByteN(add, 8), MacByteN(add, 0)>>

\* eth_ar_call2mac(m, cs, s, mc): the return value and mac[] afterwards
eth_ar_call2mac(m, cs, s, mc) ==
    IF SsidRejected(s) THEN [ret |-> -1, mac |-> m]
    ELSE LET r == Call2MacLoop(cs, 7, U64Zero)
         IN  IF ~r.ok THEN [ret |-> -1, mac |-> m]
             ELSE [ret |-> 0, mac |-> MacBytes(r.add, s, mc)]

(***************************************************************************)
(* C int arithmetic.                                                       *)
(***************************************************************************)
\* a % b of C (truncated division), b > 0
CRem(a, b) == IF a >= 0 THEN a % b ELSE -((-a) % b)

\* the values x++ can leave in a signed int: x + 1, or, on signed overflow
\* (undefined behaviour), any value of the type
IntInc(x) == IF x < IntMax THEN {x + 1} ELSE CInt

\* the values a read of an int object yields: <<>> is an object that was
\* never written (indeterminate), <<v>> one that holds v
IntRead(obj) == IF obj = <<>> THEN CInt ELSE {obj[1]}

(***************************************************************************)
(* my_datatx                                                               *)
(***************************************************************************)
\* the ascending payload written by the loop of line 141
Ascending(n) == [i \in 1..n |-> i - 1]

\* memset(packet, 0xff, 6)
Broadcast == [i \in 1..6 |-> 255]

\* a variant of the test pattern whose source field is left as zero bytes
TestPatternPacketNoSource(m) ==
    Broadcast \o [i \in 1..6 |-> 0] \o <<1, 1>> \o Ascending(64)

\* the packet of the branch data_type % 4 == 1 (lines 134-142)
TestPatternPacket(m) == Broadcast \o m \o <<1, 1>> \o Ascending(64)

\* the packet of the branch data_type % 4 == 2 (lines 149-165)
PositionPacket(m) ==
    Broadcast \o m \o <<115, 112>>
    \o <<7, 61, 208, 55, BitOr(BitOr(208, 8), 1), 62, 112, 133>>

\* the branch my_datatx takes for a value of data_type
DataBranch(dt) ==
    IF CRem(dt, 4) = 1 THEN "test"
    ELSE IF CRem(dt, 4) = 2 THEN "fprs"
    ELSE "empty"

\* the bytes my_datatx stores in packet[] and the size it returns
MyPacket(dt, m) ==
    IF DataBranch(dt) = "test"
    THEN [packet |-> TestPatternPacket(m), size |-> 64 + 14]
    ELSE IF DataBranch(dt) = "fprs"
    THEN [packet |-> PositionPacket(m), size |-> 22]
    ELSE [packet |-> <<>>, size |-> 0]

\* the data_type++ of line 174
NextDataType(dt) == IntInc(dt)

\* observer: my_datatx calls counted up to this number
MaxCalls == 2^IntBits + 4

\* one call my_datatx(&my_cb_state, packet, &size) with *size = s on entry
my_datatx(s) ==
    /\ avail' = s
    /\ \E old \in IntRead(calls) : \E c \in IntInc(old) : calls' = <<c>>
    /\ packet' = MyPacket(data_type, mac).packet
    /\ size' = MyPacket(data_type, mac).size
    /\ data_type' \in NextDataType(data_type)
    /\ ncalls' = IF ncalls < MaxCalls THEN ncalls + 1 ELSE ncalls

(***************************************************************************)
(* Command line strings.                                                   *)
(***************************************************************************)
\* "--codectx"
OPT_CODECTX == <<45, 45, 99, 111, 100, 101, 99, 116, 120>>
\* "--callsign"
OPT_CALLSIGN == <<45, 45, 99, 97, 108, 108, 115, 105, 103, 110>>
\* "--ssid"
OPT_SSID == <<45, 45, 115, 115, 105, 100>>
\* "--mac-multicast"
OPT_MAC_MULTICAST ==
    <<45, 45, 109, 97, 99, 45, 109, 117, 108, 116, 105, 99, 97, 115, 116>>
\* "--data-threshold"
OPT_DATA_THRESHOLD ==
    <<45, 45, 100, 97, 116, 97, 45, 116, 104, 114, 101, 115, 104, 111, 108,
      100>>
\* "2400A"
STR_2400A == <<50, 52, 48, 48, 65>>
\* "2400B"
STR_2400B == <<50, 52, 48, 48, 66>>
\* "800XA"
STR_800XA == <<56, 48, 48, 88, 65>>
\* "1600" (a mode this program does not accept)
STR_1600 == <<49, 54, 48, 48>>
\* "-"
STR_DASH == <<45>>
\* "NOCALL"
STR_NOCALL == <<78, 79, 67, 65, 76, 76>>
\* "nocall"
STR_nocall == <<110, 111, 99, 97, 108, 108>>
\* "pa3abc"
STR_pa3abc == <<112, 97, 51, 97, 98, 99>>
\* "A-1"
STR_A_1 == <<65, 45, 49>>
\* "ZZZZZZZZ"
STR_Z8 == <<90, 90, 90, 90, 90, 90, 90, 90>>
\* "00000000"
STR_08 == <<48, 48, 48, 48, 48, 48, 48, 48>>
\* "ABCDEFGH"
STR_A8 == <<65, 66, 67, 68, 69, 70, 71, 72>>
\* "ABCDEFGHI"
STR_A9 == <<65, 66, 67, 68, 69, 70, 71, 72, 73>>
\* "AAAAAAAA-"
STR_A8DASH == <<65, 65, 65, 65, 65, 65, 65, 65, 45>>
\* "in.raw" (a file that can be opened)
STR_IN == <<105, 110, 46, 114, 97, 119>>
\* "out.raw" (a file that can be opened)
STR_OUT == <<111, 117, 116, 46, 114, 97, 119>>
\* "missing/x.raw" (a path fopen fails on)
STR_MISSING == <<109, 105, 115, 115, 105, 110, 103, 47, 120, 46, 114, 97, 119>>
\* "16", "-1", "3", "1", "2", "32"
STR_16 == <<49, 54>>
STR_M1 == <<45, 49>>
STR_3 == <<51>>
STR_1 == <<49>>
STR_2 == <<50>>
STR_32 == <<51, 50>>

\* the null pointer argv[argc]
NULL == <<-1>>

\* strcmp(a, b) == 0
StrEq(a, b) == a = b

\* isdigit()
IsDigit(c) == c >= 48 /\ c <= 57

\* isspace() in the "C" locale
IsSpace(c) == c = 32 \/ (c >= 9 /\ c <= 13)

RECURSIVE Digits(_, _, _)
\* the value of the decimal digits of s from position k (1 based) on, after
\* the digits already accumulated in acc
Digits(s, k, acc) ==
    IF k > Len(s) \/ ~IsDigit(s[k]) THEN acc
    ELSE Digits(s, k + 1, acc * 10 + (s[k] - 48))

RECURSIVE SkipSpace(_, _)
\* the first position of s from k on that holds no white space
SkipSpace(s, k) ==
    IF k <= Len(s) /\ IsSpace(s[k]) THEN SkipSpace(s, k + 1) ELSE k

\* atoi(s) for a string s: white space, an optional sign, digits
atoi(s) ==
    LET k == SkipSpace(s, 1)
    IN  IF k <= Len(s) /\ s[k] = 45 THEN -Digits(s, k + 1, 0)
        ELSE IF k <= Len(s) /\ s[k] = 43 THEN Digits(s, k + 1, 0)
        ELSE Digits(s, k, 0)

\* atof(s) on the strings of the model, which hold no '.', exponent, "inf"
\* or "nan": the same digits as atoi
atof(s) == atoi(s)

\* (bool) of an int
IntBool(n) == n # 0

(***************************************************************************)
(* main: the option loop of lines 245-275.                                 *)
(***************************************************************************)
\* argc and argv[i] for i in 1..argc (argv[argc] is the null pointer)
Argc(av) == Len(av) + 1
Argv(av, i) == IF i < Argc(av) THEN av[i] ELSE NULL

\* main's locals before the option loop (lines 202-208 and 245)
DefaultOpts ==
    [use_codectx |-> 0, callsign |-> STR_NOCALL, ssid |-> 0,
     multicast |-> FALSE, data_threshold |-> 15, nullconv |-> FALSE]

\* atoi or atof of argv[i + 1]; the conversion of a null pointer is
\* undefined: nullconv records that it happened and 0 stands for the value
\* of a run that survives it
ConvArg(o, v, f) ==
    IF v = NULL THEN [o EXCEPT !.nullconv = TRUE, ![f] = 0]
    ELSE [o EXCEPT ![f] = atoi(v)]

\* the body of the loop for argv[i] (lines 249-273)
OptStep(av, i, o) ==
    LET a  == Argv(av, i)
        v  == Argv(av, i + 1)
        o1 == IF StrEq(a, OPT_CODECTX) THEN [o EXCEPT !.use_codectx = 1]
              ELSE o
        o2 == IF StrEq(a, OPT_CALLSIGN) THEN [o1 EXCEPT !.callsign = v]
              ELSE o1
        o3 == IF StrEq(a, OPT_SSID) THEN ConvArg(o2, v, "ssid") ELSE o2
        o4 == IF StrEq(a, OPT_MAC_MULTICAST)
              THEN LET c == ConvArg(o3, v, "multicast")
                   IN  [c EXCEPT !.multicast = IntBool(c.multicast)]
              ELSE o3
        o5 == IF StrEq(a, OPT_DATA_THRESHOLD)
              THEN [ConvArg(o4, v, "data_threshold") EXCEPT
                        !.data_threshold = IF v = NULL THEN 0 ELSE atof(v)]
              ELSE o4
    IN  o5

RECURSIVE OptLoop(_, _, _)
\* for (i = ...; i < argc; i++)
OptLoop(av, i, o) ==
    IF i < Argc(av) THEN OptLoop(av, i + 1, OptStep(av, i, o)) ELSE o

\* lines 245-275
ParseOptions(av) ==
    IF Argc(av) > 4 THEN OptLoop(av, 4, DefaultOpts) ELSE DefaultOpts

(***************************************************************************)
(* The FreeDV and Codec 2 libraries (not part of this program): sizes and  *)
(* deterministic stand-ins for the codec and the modem.                    *)
(***************************************************************************)
\* samples of one codec frame (stands for codec2_samples_per_frame)
BlockLen == 1

\* FREEDV_DATA_CHANNEL_PACKET_MAX: the room the library offers my_datatx
DataChannelPacketMax == 2048

\* bits_per_modem_frame / bits_per_codec_frame
CodecFrames(m) == IF m = "800XA" THEN 2 ELSE 1

\* codec2_samples_per_frame(c2)
SamplesPerFrame(m) == BlockLen

\* freedv_get_n_speech_samples(freedv)
NSpeechSamples(m) == CodecFrames(m) * SamplesPerFrame(m)

\* freedv_get_n_nom_modem_samples(freedv)
NNomModemSamples(m) == IF m = "800XA" THEN BlockLen ELSE BlockLen + 1

\* frame i (0 based) of a speech block
SpeechFrame(m, block, i) ==
    SubSeq(block, i * SamplesPerFrame(m) + 1, (i + 1) * SamplesPerFrame(m))

\* codec2_encode(c2, enc_frame, speech_frame)
codec2_encode(frame) == <<"c2", frame>>

RECURSIVE SumSquares(_, _)
\* sum over samples[0..nr-1] of (samples[i] * samples[i]) / 8192
SumSquares(samples, nr) ==
    IF nr = 0 THEN 0
    ELSE SumSquares(samples, nr - 1)
         + (samples[nr] * samples[nr]) \div 8192

\* codec2_get_energy(c2, enc_frame)
codec2_get_energy(enc) == SumSquares(enc[2], Len(enc[2]))

\* the encoded frames of a speech block, in order
EncodeFrames(m, block) ==
    [i \in 1..CodecFrames(m) |-> codec2_encode(SpeechFrame(m, block, i - 1))]

\* freedv_rawdata_from_codec_frames(freedv, rawdata, encoded)
freedv_rawdata_from_codec_frames(encoded) == <<"raw", encoded>>

\* freedv_rawdatatx(freedv, mod_out, rawdata)
freedv_rawdatatx(rawdata) == [kind |-> "voice", body |-> rawdata]

\* freedv_tx(freedv, mod_out, speech_in): encode, pack, modulate
freedv_tx(m, block) ==
    freedv_rawdatatx(freedv_rawdata_from_codec_frames(EncodeFrames(m, block)))

\* the modem block of freedv_datatx: a header frame with the address given
\* to freedv_set_data_header when the callback returned size 0, else a
\* frame of the packet
DataFrame(hdr, pkt, sz) ==
    [kind |-> "data",
     body |-> IF sz = 0 THEN <<"header", hdr>> ELSE <<"packet", pkt>>]

(***************************************************************************)
(* The energy score and the frame decision.                                *)
(***************************************************************************)
\* samples_get_energy(samples, nr): the score as <<numerator, denominator>>
samples_get_energy(samples, nr) == <<SumSquares(samples, nr), nr>>

RECURSIVE SumEnergy(_, _)
\* the sum of codec2_get_energy over the first n encoded frames
SumEnergy(encoded, n) ==
    IF n = 0 THEN 0
    ELSE SumEnergy(encoded, n - 1) + codec2_get_energy(encoded[n])

\* lines 332-341: energy summed over the codec frames, / codec_frames
CodecEnergy(m, encoded) == <<SumEnergy(encoded, CodecFrames(m)), CodecFrames(m)>>

\* a variant of the comparison that takes equality as quiet
IsQuietOrEqual(e, thr) == e[1] <= thr * e[2]

\* energy < data_threshold (lines 309 and 344)
IsQuiet(e, thr) == e[1] < thr * e[2]

(***************************************************************************)
(* Inputs of the model.                                                    *)
(***************************************************************************)
\* sample values: (s * s) / 8192 is 2 and 32
SampleVals == {128, 512}

\* input streams
Streams == UNION {[1..n -> SampleVals] : n \in 0..MaxSamples}

\* what the uninitialised my_cb_state.mac may hold
GarbageMacs == {[i \in 1..6 |-> 0], <<222, 173, 190, 239, 0, 1>>}

\* option lists after the three positional arguments
OptionTails ==
    {<<>>,
     <<OPT_CODECTX>>,
     <<OPT_CODECTX, OPT_DATA_THRESHOLD, STR_32>>,
     <<OPT_DATA_THRESHOLD, STR_32>>,
     <<OPT_SSID, STR_16>>,
     <<OPT_SSID, STR_M1>>,
     <<OPT_CALLSIGN, STR_A_1>>,
     <<OPT_CALLSIGN, STR_pa3abc, OPT_SSID, STR_3, OPT_MAC_MULTICAST, STR_1>>,
     <<OPT_CALLSIGN, OPT_SSID, STR_3>>,
     <<OPT_MAC_MULTICAST, STR_2>>,
     <<OPT_SSID>>,
     <<OPT_DATA_THRESHOLD>>,
     <<OPT_CODECTX, OPT_CALLSIGN>>}

\* argument vectors argv[1..argc-1]
ArgVectors ==
    {<<>>, <<STR_2400A, STR_IN>>}
    \cup {<<m, i, o>> : m \in {STR_2400A, STR_2400B, STR_800XA, STR_1600},
                        i \in {STR_DASH, STR_IN, STR_MISSING},
                        o \in {STR_DASH, STR_OUT, STR_MISSING}}
    \cup {<<m, STR_IN, o>> \o t : m \in {STR_2400A, STR_800XA},
                                  o \in {STR_DASH, STR_OUT},
                                  t \in OptionTails}

\* fopen(name, ...) != NULL
FileOpens(name) == name # STR_MISSING

(***************************************************************************)
(* main                                                                    *)
(***************************************************************************)
\* lines 220-223
ModeOf(a) ==
    LET m1 == IF StrEq(a, STR_2400A) THEN "2400A" ELSE "-1"
        m2 == IF StrEq(a, STR_2400B) THEN "2400B" ELSE m1
        m3 == IF StrEq(a, STR_800XA) THEN "800XA" ELSE m2
    IN  m3

\* exit(status) after printing msg on stream
ExitWith(stream, msg, status) ==
    /\ diag' = Append(diag, <<stream, msg>>)
    /\ exit_status' = <<status>>
    /\ pc' = "exited"

\* the exit status of the "Error in mode" path (line 226)
ModeErrorStatus == 0

\* lines 210-227: the argument count and the mode
CheckArgs ==
    /\ pc = "main"
    /\ IF Argc(argv) < 4
       THEN ExitWith("stdout", "usage", 1) /\ UNCHANGED mode
       ELSE /\ mode' = ModeOf(argv[1])
            /\ IF mode' = "-1"
               THEN ExitWith("stderr", "Error in mode", ModeErrorStatus)
               ELSE pc' = "open_in" /\ UNCHANGED <<diag, exit_status>>
    /\ UNCHANGED <<heap, argv, fin, fout, use_codectx, callsign, ssid, multicast,
                   data_threshold, mac, calls, ret, header, data_type, avail,
                   packet, size, ncalls, in_stream, in_pos, speech_in, energy,
                   decision, mod_out, out_stream, unflushed, reads>>

\* lines 229-235: the input stream
OpenInput ==
    /\ pc = "open_in"
    /\ IF StrEq(argv[2], STR_DASH)
       THEN fin' = "stdin" /\ pc' = "open_out"
            /\ UNCHANGED <<diag, exit_status>>
       ELSE IF FileOpens(argv[2])
       THEN fin' = "file" /\ pc' = "open_out"
            /\ UNCHANGED <<diag, exit_status>>
       ELSE /\ UNCHANGED fin
            /\ ExitWith("stderr", "Error opening input raw speech sample file", 1)
    /\ UNCHANGED <<heap, argv, mode, fout, use_codectx, callsign, ssid, multicast,
                   data_threshold, mac, calls, ret, header, data_type, avail,
                   packet, size, ncalls, in_stream, in_pos, speech_in, energy,
                   decision, mod_out, out_stream, unflushed, reads>>

\* lines 237-243: the output stream
OpenOutput ==
    /\ pc = "open_out"
    /\ IF StrEq(argv[3], STR_DASH)
       THEN fout' = "stdout" /\ pc' = "options"
            /\ UNCHANGED <<diag, exit_status>>
       ELSE IF FileOpens(argv[3])
       THEN fout' = "file" /\ pc' = "options"
            /\ UNCHANGED <<diag, exit_status>>
       ELSE /\ UNCHANGED fout
            /\ ExitWith("stderr", "Error opening output modem sample file", 1)
    /\ UNCHANGED <<heap, argv, mode, fin, use_codectx, callsign, ssid, multicast,
                   data_threshold, mac, calls, ret, header, data_type, avail,
                   packet, size, ncalls, in_stream, in_pos, speech_in, energy,
                   decision, mod_out, out_stream, unflushed, reads>>

\* lines 245-275: the options. atoi or atof of the null pointer argv[argc]
\* is undefined: the process dies on it, or goes on with some value
Options ==
    /\ pc = "options"
    /\ LET o == ParseOptions(argv)
       IN  \/ /\ use_codectx' = o.use_codectx
              /\ callsign' = o.callsign
              /\ ssid' = o.ssid
              /\ multicast' = o.multicast
              /\ data_threshold' = o.data_threshold
              /\ pc' = "setup"
           \/ /\ o.nullconv
              /\ pc' = "crashed"
              /\ UNCHANGED <<use_codectx, callsign, ssid, multicast,
                             data_threshold>>
    /\ UNCHANGED <<heap, argv, mode, fin, fout, mac, calls, ret, header, data_type,
                   avail, packet, size, ncalls, in_stream, in_pos, speech_in,
                   energy, decision, mod_out, out_stream, unflushed, reads,
                   diag, exit_status>>

\* no buffer allocated yet
NoBuffers == [live |-> {}, allocs |-> 0, frees |-> 0]

\* malloc / calloc of n elements for the pointer name
malloc(h, name, n) ==
    [live   |-> h.live \cup {[buf |-> name, size |-> n]},
     allocs |-> h.allocs + 1,
     frees  |-> h.frees]

\* free of the buffer the pointer name holds
free(h, name) ==
    [live   |-> {b \in h.live : b.buf # name},
     allocs |-> h.allocs,
     frees  |-> h.frees + 1]

\* VLA_CALLOC(type, name, n): a zeroed array of n elements that lives until
\* VLA_FREE
VLA_CALLOC(h, name, n) == malloc(h, name, n)

\* VLA_FREE(name)
VLA_FREE(h, name) == free(h, name)

\* the buffers of one pass of the loop: none without --codectx; with it
\* encoded (codec_frames frames) and rawdata (one modem frame), made at lines
\* 328-329 and released at line 352
IterationBuffers(codectx, m, h) ==
    IF codectx = 0 THEN h
    ELSE VLA_FREE(VLA_FREE(VLA_CALLOC(VLA_CALLOC(h, "encoded", CodecFrames(m)),
                                      "rawdata", 1),
                           "encoded"),
                  "rawdata")

\* malloc(sizeof(short) * n): n samples; the program reads none of them
\* before fread has stored one over it, so 0 stands for what they hold
MallocSamples(n) == [i \in 1..n |-> 0]

\* lines 277-297: freedv_open, the address (the value eth_ar_call2mac
\* returns is not looked at), the header, the buffers and the callbacks.
\* strlen of a null callsign is undefined: the process dies on it, or goes
\* on as with an empty string
Setup ==
    /\ pc = "setup"
    /\ \/ /\ LET cs == IF callsign = NULL THEN <<>> ELSE callsign
                 r  == eth_ar_call2mac(mac, cs, ssid, multicast)
             IN  /\ ret' = <<r.ret>>
                 /\ mac' = r.mac
                 /\ header' = r.mac
          /\ speech_in' = MallocSamples(NSpeechSamples(mode))
          /\ heap' = malloc(malloc(heap, "speech_in", NSpeechSamples(mode)),
                            "mod_out", NNomModemSamples(mode))
          /\ pc' = "read"
       \/ /\ callsign = NULL
          /\ ~SsidRejected(ssid)
          /\ pc' = "crashed"
          /\ UNCHANGED <<ret, mac, header, speech_in, heap>>
    /\ UNCHANGED <<argv, mode, fin, fout, use_codectx, callsign, ssid,
                   multicast, data_threshold, calls, data_type, avail, packet,
                   size, ncalls, in_stream, in_pos, energy, decision,
                   mod_out, out_stream, unflushed, reads, diag, exit_status>>

\* fread(speech_in, sizeof(short), n, fin): the samples it stores
FreadBlock(stream, pos, n) ==
    SubSeq(stream, pos + 1, IF pos + n <= Len(stream) THEN pos + n
                            ELSE Len(stream))

\* a variant of the loop condition that goes on after any read that stored
\* samples
FullBlockAnyRead(got, n) == Len(got) > 0

\* the loop condition of lines 301-302: fread returned n_speech_samples
FullBlock(got, n) == Len(got) = n

\* lines 301-302: read one block; a short read ends the loop
ReadBlock ==
    /\ pc = "read"
    /\ LET n   == NSpeechSamples(mode)
           got == FreadBlock(in_stream, in_pos, n)
       IN  /\ in_pos' = in_pos + Len(got)
           /\ speech_in' = got \o SubSeq(speech_in, Len(got) + 1, Len(speech_in))
           /\ pc' = IF FullBlock(got, n) THEN "tx" ELSE "finish"
    /\ reads' = reads + 1
    /\ UNCHANGED <<heap, argv, mode, fin, fout, use_codectx, callsign, ssid,
                   multicast, data_threshold, mac, calls, ret, header,
                   data_type, avail, packet, size, ncalls, in_stream, energy,
                   decision, mod_out, out_stream, unflushed, diag,
                   exit_status>>

\* freedv_datatx(freedv, mod_out): the library asks the callback for a new
\* packet, or goes on with a packet it has not sent completely
freedv_datatx ==
    \/ /\ my_datatx(DataChannelPacketMax)
       /\ mod_out' = DataFrame(header, packet', size')
    \/ /\ size > 0
       /\ mod_out' = DataFrame(header, packet, size)
       /\ UNCHANGED <<calls, data_type, avail, packet, size, ncalls>>

\* the score of the block: lines 306 (samples_get_energy) and 335-341 (the
\* codec's energy of the encoded frames)
BlockEnergy(codectx, m, block) ==
    IF codectx = 0 THEN samples_get_energy(block, NSpeechSamples(m))
    ELSE CodecEnergy(m, EncodeFrames(m, block))

\* a variant of the voice path whose split branch encodes the first speech
\* frame for every codec frame (speech_frame not advanced)
VoiceFrameFirstFrame(codectx, m, block) ==
    IF codectx = 0 THEN freedv_tx(m, block)
    ELSE freedv_rawdatatx(
             freedv_rawdata_from_codec_frames(
                 [i \in 1..CodecFrames(m) |->
                     codec2_encode(SpeechFrame(m, block, 0))]))

\* the voice path: line 314, or lines 349-350
VoiceFrame(codectx, m, block) ==
    IF codectx = 0 THEN freedv_tx(m, block)
    ELSE freedv_rawdatatx(
             freedv_rawdata_from_codec_frames(EncodeFrames(m, block)))

\* lines 303-353: the score, the decision and the modem block
Transmit ==
    /\ pc = "tx"
    /\ energy' = BlockEnergy(use_codectx, mode, speech_in)
    /\ heap' = IterationBuffers(use_codectx, mode, heap)
    /\ IF IsQuiet(energy', data_threshold)
       THEN /\ decision' = "DATA"
            /\ freedv_datatx
       ELSE /\ decision' = "VOICE"
            /\ mod_out' = VoiceFrame(use_codectx, mode, speech_in)
            /\ UNCHANGED <<calls, data_type, avail, packet, size, ncalls>>
    /\ pc' = "write"
    /\ UNCHANGED <<argv, mode, fin, fout, use_codectx, callsign, ssid,
                   multicast, data_threshold, mac, ret, header, in_stream,
                   in_pos, speech_in, out_stream, unflushed, reads, diag,
                   exit_status>>

\* line 355: fwrite(mod_out, sizeof(short), n_nom_modem_samples, fout)
WriteBlock ==
    /\ pc = "write"
    /\ out_stream' = Append(out_stream,
                            [n |-> NNomModemSamples(mode), frame |-> mod_out])
    /\ unflushed' = unflushed + 1
    /\ pc' = "flush"
    /\ UNCHANGED <<heap, argv, mode, fin, fout, use_codectx, callsign, ssid,
                   multicast, data_threshold, mac, calls, ret, header,
                   data_type, avail, packet, size, ncalls, in_stream, in_pos,
                   speech_in, energy, decision, mod_out, reads, diag,
                   exit_status>>

\* a variant of line 359 that never flushes
FlushStdoutNever ==
    /\ pc = "flush"
    /\ unflushed' = unflushed
    /\ pc' = "read"
    /\ UNCHANGED <<heap, argv, mode, fin, fout, use_codectx, callsign, ssid,
                   multicast, data_threshold, mac, calls, ret, header,
                   data_type, avail, packet, size, ncalls, in_stream, in_pos,
                   speech_in, energy, decision, mod_out, out_stream, reads,
                   diag, exit_status>>

\* line 359: if (fout == stdout) fflush(stdout)
FlushStdout ==
    /\ pc = "flush"
    /\ unflushed' = IF fout = "stdout" THEN 0 ELSE unflushed
    /\ pc' = "read"
    /\ UNCHANGED <<heap, argv, mode, fin, fout, use_codectx, callsign, ssid,
                   multicast, data_threshold, mac, calls, ret, header,
                   data_type, avail, packet, size, ncalls, in_stream, in_pos,
                   speech_in, energy, decision, mod_out, out_stream, reads,
                   diag, exit_status>>

\* lines 362-371: free, close (fclose flushes) and return 0
Finish ==
    /\ pc = "finish"
    /\ unflushed' = 0
    /\ exit_status' = <<0>>
    /\ heap' = free(free(heap, "speech_in"), "mod_out")
    /\ pc' = "exited"
    /\ UNCHANGED <<argv, mode, fin, fout, use_codectx, callsign, ssid,
                   multicast, data_threshold, mac, calls, ret, header,
                   data_type, avail, packet, size, ncalls, in_stream, in_pos,
                   speech_in, energy, decision, mod_out, out_stream, reads,
                   diag>>

\* the state when main is entered
Init ==
    /\ pc = "main"
    /\ argv \in ArgVectors
    /\ mode = "-1"
    /\ fin = "none"
    /\ fout = "none"
    /\ use_codectx = 0
    /\ callsign = STR_NOCALL
    /\ ssid = 0
    /\ multicast = FALSE
    /\ data_threshold = 15
    /\ mac \in GarbageMacs
    /\ calls = <<>>
    /\ ret = <<>>
    /\ header = <<>>
    /\ data_type = 0
    /\ avail = 0
    /\ packet = <<>>
    /\ size = 0
    /\ ncalls = 0
    /\ in_stream \in Streams
    /\ in_pos = 0
    /\ speech_in = <<>>
    /\ energy = <<0, 1>>
    /\ decision = "none"
    /\ mod_out = [kind |-> "none", body |-> <<>>]
    /\ out_stream = <<>>
    /\ unflushed = 0
    /\ reads = 0
    /\ diag = <<>>
    /\ exit_status = <<>>
    /\ heap = NoBuffers

Next ==
    \/ CheckArgs
    \/ OpenInput
    \/ OpenOutput
    \/ Options
    \/ Setup
    \/ ReadBlock
    \/ Transmit
    \/ WriteBlock
    \/ FlushStdout
    \/ Finish

\* the program
Spec == Init /\ [][Next]_vars

(***************************************************************************)
(* eth_ar_call2mac on its own: Init draws the arguments, CallMac applies   *)
(* the function.                                                           *)
(***************************************************************************)
\* characters of the generated callsigns: '0', 'A', 'Z', 'a', '-'
CallChars == {48, 65, 90, 97, 45}

\* callsigns: every string of at most MaxCallLen generated characters, and
\* some longer ones
Callsigns ==
    UNION {[1..n -> CallChars] : n \in 0..MaxCallLen}
    \cup {STR_NOCALL, STR_nocall, STR_pa3abc, STR_A_1, STR_Z8, STR_08,
          STR_A8, STR_A9, STR_A8DASH}

\* ssid arguments
SsidVals == -1..16

\* the variables main's loop and my_datatx use, at rest
IdleRest ==
    /\ argv = <<>>
    /\ mode = "-1"
    /\ fin = "none"
    /\ fout = "none"
    /\ use_codectx = 0
    /\ data_threshold = 15
    /\ in_stream = <<>>
    /\ in_pos = 0
    /\ speech_in = <<>>
    /\ energy = <<0, 1>>
    /\ decision = "none"
    /\ mod_out = [kind |-> "none", body |-> <<>>]
    /\ out_stream = <<>>
    /\ unflushed = 0
    /\ reads = 0
    /\ diag = <<>>
    /\ exit_status = <<>>
    /\ heap = NoBuffers

InitMac ==
    /\ pc = "call2mac"
    /\ callsign \in Callsigns
    /\ ssid \in SsidVals
    /\ multicast \in BOOLEAN
    /\ mac \in GarbageMacs
    /\ ret = <<>>
    /\ header = <<>>
    /\ calls = <<>>
    /\ data_type = 0
    /\ avail = 0
    /\ packet = <<>>
    /\ size = 0
    /\ ncalls = 0
    /\ IdleRest

\* eth_ar_call2mac(mac, callsign, ssid, multicast)
CallMac ==
    /\ pc = "call2mac"
    /\ LET r == eth_ar_call2mac(mac, callsign, ssid, multicast)
       IN  ret' = <<r.ret>> /\ mac' = r.mac
    /\ pc' = "returned"
    /\ UNCHANGED <<heap, argv, mode, fin, fout, use_codectx, callsign, ssid,
                   multicast, data_threshold, calls, header, data_type,
                   avail, packet, size, ncalls, in_stream, in_pos, speech_in,
                   energy, decision, mod_out, out_stream, unflushed, reads,
                   diag, exit_status>>

NextMac == CallMac

SpecMac == InitMac /\ [][NextMac]_vars

(***************************************************************************)
(* my_datatx on its own: the library calls it again and again.             *)
(***************************************************************************)
\* the address of "NOCALL", ssid 0, unicast
MacNOCALL == eth_ar_call2mac(<<0, 0, 0, 0, 0, 0>>, STR_NOCALL, 0, FALSE).mac

\* the room the caller offers in *size
AvailSizes == {0, 22, DataChannelPacketMax}

InitTx ==
    /\ pc = "callback"
    /\ callsign = STR_NOCALL
    /\ ssid = 0
    /\ multicast = FALSE
    /\ mac \in GarbageMacs \cup {MacNOCALL}
    /\ ret = <<>>
    /\ header = mac
    /\ calls = <<>>
    /\ data_type = 0
    /\ avail = 0
    /\ packet = <<>>
    /\ size = 0
    /\ ncalls = 0
    /\ IdleRest

\* one call of the callback
TxCall ==
    /\ pc = "callback"
    /\ ncalls < MaxCalls
    /\ \E s \in AvailSizes : my_datatx(s)
    /\ UNCHANGED <<heap, pc, argv, mode, fin, fout, use_codectx, callsign, ssid,
                   multicast, data_threshold, mac, ret, header, in_stream,
                   in_pos, speech_in, energy, decision, mod_out, out_stream,
                   unflushed, reads, diag, exit_status>>

NextTx == TxCall

SpecTx == InitTx /\ [][NextTx]_vars

(***************************************************************************)
(* Properties of my_datatx (SpecTx).                                        *)
(***************************************************************************)
\* what the (n+1)-th call is expected to return for the source address m:
\* nothing, the 78 byte test pattern or the 22 byte position report
ExpectedPacket(n, m) ==
    IF n % 4 = 1
    THEN <<255, 255, 255, 255, 255, 255>> \o m \o <<1, 1>>
         \o [i \in 1..64 |-> i - 1]
    ELSE IF n % 4 = 2
    THEN <<255, 255, 255, 255, 255, 255>> \o m \o <<115, 112>>
         \o <<7, 61, 208, 55, 217, 62, 112, 133>>
    ELSE <<>>

\* the last call returned what the cycle prescribes for call number ncalls
LastCallInCycle ==
    /\ size = Len(ExpectedPacket(ncalls - 1, mac))
    /\ size \in {0, 22, 78}
    /\ size > 0 => packet = ExpectedPacket(ncalls - 1, mac)

\* C1: for every n >= 0 the (n+1)-th call of my_datatx returns size 0 when
\* n mod 4 is 0 or 3, the 78 byte test pattern when n mod 4 = 1 and the
\* 22 byte position report when n mod 4 = 2, so calls 5..8 repeat calls 1..4
C1_PacketCycle == (pc = "callback" /\ ncalls >= 1) => LastCallInCycle

\* the cycle holds for the calls made before data_type++ overflows the int
PacketCycleBeforeOverflow ==
    (pc = "callback" /\ ncalls >= 1 /\ ncalls <= IntMax + 1) => LastCallInCycle

\* C13: the counter that selects the packet is incremented once on every
\* call and wraps modulo 4: after any number of calls the stored value lies
\* in 0..3 and is the number of calls made modulo 4, so that the cycle goes
\* on for every call count
C13_CounterWraps ==
    pc = "callback" =>
        /\ data_type \in 0..3
        /\ ncalls < MaxCalls => data_type = ncalls % 4
        /\ ncalls >= 1 => LastCallInCycle

\* C17: my_datatx respects the room the caller gives in *size: after every
\* call the size returned is at most the size on entry and no byte of
\* packet[] at an index at or beyond it was written
C17_SizeRespected ==
    (pc = "callback" /\ ncalls >= 1) =>
        /\ size <= avail
        /\ Len(packet) <= avail

\* what does hold: the callback as the library drives it from main's loop,
\* with room for DataChannelPacketMax bytes, stays within that room
SizeWithinLibraryRoom ==
    (pc \in {"write", "flush", "read", "finish"} /\ ncalls >= 1) =>
        /\ avail = DataChannelPacketMax
        /\ size <= avail /\ Len(packet) <= avail

(***************************************************************************)
(* Properties of eth_ar_call2mac (SpecMac).                                *)
(***************************************************************************)
\* c is a digit or a letter of either case
IsAlnum(c) ==
    (c >= 48 /\ c <= 57) \/ (c >= 65 /\ c <= 90) \/ (c >= 97 /\ c <= 122)

\* some character of the first n characters of cs is no digit and no letter
HasInvalidChar(cs, n) ==
    \E i \in 1..Len(cs) : i <= n /\ ~IsAlnum(cs[i])

\* a valid identifier: at most 8 characters, digits and letters only
ValidCallsign(cs) == Len(cs) <= 8 /\ ~HasInvalidChar(cs, Len(cs))

\* cs with its letters in upper case
UpperCase(cs) ==
    [i \in 1..Len(cs) |-> IF cs[i] >= 97 /\ cs[i] <= 122 THEN cs[i] - 32
                          ELSE cs[i]]

\* the integer eth_ar_call2mac accumulated for the callsign of the state
EncodedInt == Call2MacLoop(callsign, 7, U64Zero).add

\* C4: an identifier of any length with a character that is no digit and no
\* letter, wherever it stands, makes eth_ar_call2mac return -1 (ssid in
\* 0..15)
C4_InvalidCharRejected ==
    (pc = "returned" /\ ssid \in 0..15
     /\ HasInvalidChar(callsign, Len(callsign)))
        => ret = <<-1>>

\* C5: with ssid < 0 or ssid > 15 eth_ar_call2mac returns -1 and leaves the
\* six bytes of mac as they were; with ssid in 0..15 and no rejected
\* character it returns 0
C5_SsidBounds ==
    [][pc = "call2mac" =>
          /\ (ssid < 0 \/ ssid > 15) => (ret' = <<-1>> /\ mac' = mac)
          /\ (ssid \in 0..15 /\ ~HasInvalidChar(callsign, 8))
                => ret' = <<0>>]_vars

\* eth_ar_call2mac refused ssid 16 and left the bytes of mac alone
C5_Witness ==
    pc = "returned" /\ ssid = 16 /\ ret = <<-1>> /\ mac \in GarbageMacs
    /\ callsign = STR_NOCALL

\* C7 as amended: the encoded integer has 42 bits; mac[0] holds its bits
\* 41..40 in bits 7..6, ssid in bits 5..2, 1 in bit 1 and multicast in bit
\* 0; mac[1..5] hold bits 39..0, most significant byte first
C7_Layout42 ==
    (pc = "returned" /\ ret = <<0>>) =>
        /\ EncodedInt[8] = 0 /\ EncodedInt[7] = 0 /\ EncodedInt[6] < 4
        /\ mac[1] = 64 * EncodedInt[6] + 4 * ssid + 2 + BoolInt(multicast)
        /\ mac[2] = EncodedInt[5]
        /\ mac[3] = EncodedInt[4]
        /\ mac[4] = EncodedInt[3]
        /\ mac[5] = EncodedInt[2]
        /\ mac[6] = EncodedInt[1]

\* an address was made for "ZZZZZZZZ", whose integer 0x31B188835E8 has 11
\* in bits 41..40 and 00 in bits 39..38
C7_Witness ==
    pc = "returned" /\ ret = <<0>> /\ callsign = STR_Z8 /\ ssid = 15
    /\ multicast /\ EncodedInt[6] = 3 /\ EncodedInt[5] \div 64 = 0

\* C7: the encoded value has 40 bits; mac[0] holds its two most significant
\* bits (39..38) in bits 7..6, ssid in bits 5..2, 1 in bit 1 and multicast
\* in bit 0; mac[1..5] hold the remaining bits, most significant byte first
C7_Layout40 ==
    (pc = "returned" /\ ret = <<0>> /\ ValidCallsign(callsign)) =>
        /\ EncodedInt[8] = 0 /\ EncodedInt[7] = 0 /\ EncodedInt[6] = 0
        /\ mac[1] = 64 * (EncodedInt[5] \div 64) + 4 * ssid + 2
                    + BoolInt(multicast)
        /\ mac[2] = EncodedInt[5] % 64
        /\ mac[3] = EncodedInt[4]
        /\ mac[4] = EncodedInt[3]
        /\ mac[5] = EncodedInt[2]
        /\ mac[6] = EncodedInt[1]

\* C8: the addresses for multicast = false and multicast = true differ in
\* bit 0 of byte 0 (clear for false, set for true) and in nothing else, and
\* bit 1 of byte 0 is set in both
C8_MulticastBit ==
    (pc = "returned" /\ ret = <<0>>) =>
        LET other == eth_ar_call2mac(mac, callsign, ssid, ~multicast)
        IN  /\ other.ret = 0
            /\ mac[1] % 2 = BoolInt(multicast)
            /\ other.mac[1] % 2 = BoolInt(~multicast)
            /\ mac[1] \div 2 = other.mac[1] \div 2
            /\ (mac[1] \div 2) % 2 = 1
            /\ \A i \in 2..6 : mac[i] = other.mac[i]

\* the multicast address of "NOCALL", ssid 0 was made
C8_Witness ==
    pc = "returned" /\ ret = <<0>> /\ callsign = STR_NOCALL /\ ssid = 0
    /\ multicast /\ mac[1] % 4 = 3

RECURSIVE U64DivSmall(_, _, _, _)
\* bytes 0..k of a, after the remainder rem of the bytes above, divided by d
U64DivSmall(a, d, k, rem) ==
    IF k < 0 THEN [q |-> <<>>, r |-> rem]
    ELSE LET cur  == rem * 256 + U64Byte(a, k)
             rest == U64DivSmall(a, d, k - 1, cur % d)
         IN  [q |-> rest.q \o <<cur \div d>>, r |-> rest.r]

RECURSIVE Base37Digits(_, _)
\* the n least significant base 37 digits of a, least significant first
Base37Digits(a, n) ==
    IF n = 0 THEN <<>>
    ELSE LET dm == U64DivSmall(a, 37, 7, 0)
         IN  <<dm.r>> \o Base37Digits(dm.q, n - 1)

RECURSIVE DigitsToCall(_)
\* the characters of the digits before the first pad digit 36
DigitsToCall(ds) ==
    IF ds = <<>> \/ ds[1] = 36 THEN <<>>
    ELSE <<alnum2code[ds[1] + 1]>> \o DigitsToCall(Tail(ds))

\* the identifier, ssid and flag read back from an address
Mac2Call(m) ==
    [callsign  |-> DigitsToCall(Base37Digits(
                       <<m[6], m[5], m[4], m[3], m[2], m[1] \div 64, 0, 0>>,
                       8)),
     ssid      |-> (m[1] \div 4) % 16,
     multicast |-> m[1] % 2 = 1]

\* C9: the encoding is reversible: the identifier in upper case, the ssid
\* and the multicast flag are recovered from the six bytes, so two valid
\* inputs with the same address are equal
C9_Reversible ==
    (pc = "returned" /\ ret = <<0>> /\ ValidCallsign(callsign)) =>
        Mac2Call(mac) = [callsign  |-> UpperCase(callsign),
                         ssid      |-> ssid,
                         multicast |-> multicast]

\* a lower case identifier was encoded with ssid 15
C9_Witness ==
    pc = "returned" /\ ret = <<0>> /\ callsign = STR_nocall /\ ssid = 15
    /\ ~multicast /\ Mac2Call(mac).callsign = STR_NOCALL

\* the index of a digit or letter in the alphabet 0..9 A..Z, letters of
\* either case alike
AlphabetIndex(c) ==
    IF c >= 48 /\ c <= 57 THEN c - 48
    ELSE IF c >= 65 /\ c <= 90 THEN c - 65 + 10
    ELSE c - 97 + 10

\* the digits d_0 .. d_7 of an identifier: the alphabet index of position i
\* below its length, the pad index 36 from there on
ExpectedDigits(cs) ==
    [k \in 1..8 |-> IF k <= Len(cs) THEN AlphabetIndex(cs[k]) ELSE 36]

RECURSIVE DigitsValue(_, _)
\* the sum of ds[i + 1] * 37^(i - k) over the positions i >= k (0 based)
DigitsValue(ds, k) ==
    IF k >= Len(ds) THEN U64Zero
    ELSE U64MulAdd(DigitsValue(ds, k + 1), 37, ds[k + 1])

\* C12: for a valid identifier (and ssid in 0..15) the call succeeds and the
\* integer it accumulates is the sum over i = 0..7 of d_i * 37^i: its eight
\* base 37 digits, least significant first, are the alphabet indices of the
\* characters of positions 0, 1, ... taken in upper case and 36 from the
\* length on; the identifier in upper case gives the same address
C12_Base37Value ==
    (pc = "returned" /\ ValidCallsign(callsign) /\ ssid \in 0..15) =>
        /\ ret = <<0>>
        /\ Base37Digits(EncodedInt, 8) = ExpectedDigits(callsign)
        /\ EncodedInt = DigitsValue(ExpectedDigits(callsign), 0)
        /\ eth_ar_call2mac(mac, UpperCase(callsign), ssid, multicast).mac
               = mac

\* "pa3abc" was encoded: digits 25 10 3 10 11 12 and two pads
C12_Witness ==
    /\ pc = "returned" /\ ret = <<0>> /\ callsign = STR_pa3abc
    /\ Base37Digits(EncodedInt, 8) = <<25, 10, 3, 10, 11, 12, 36, 36>>

(***************************************************************************)
(* Properties of main (Spec).                                              *)
(***************************************************************************)
\* the number of full blocks the input stream holds
FullBlocks == Len(in_stream) \div NSpeechSamples(mode)

\* main is in or after its loop
LoopEntered == pc \in {"read", "tx", "write", "flush", "finish"}
               \/ (pc = "exited" /\ reads > 0)

\* C2: with k full blocks followed by a short block in the input, in either
\* pipeline mode the loop writes k modem blocks of n_nom_modem_samples
\* samples, never more, and then main returns 0: every pass of the loop is
\* one more fread, there are at most k + 1 of them, and until main has
\* returned a next step is possible
C2_BlockCount ==
    /\ LoopEntered =>
          /\ Len(out_stream) <= FullBlocks
          /\ reads <= FullBlocks + 1
          /\ \A i \in 1..Len(out_stream) :
                 out_stream[i].n = NNomModemSamples(mode)
          /\ pc # "exited" => ENABLED Next
    /\ pc = "exited" /\ reads > 0 =>
          /\ exit_status = <<0>>
          /\ Len(out_stream) = FullBlocks
          /\ reads = FullBlocks + 1

\* a run with --codectx ended after a short block that held samples
C2_Witness ==
    /\ pc = "exited" /\ exit_status = <<0>> /\ use_codectx = 1
    /\ Len(in_stream) % NSpeechSamples(mode) # 0
    /\ Len(out_stream) >= 1
    /\ Len(out_stream) = FullBlocks

\* C3: the data path is taken exactly when the score of the block is below
\* data_threshold and the voice path otherwise (so on equality too); nothing
\* else enters the decision
C3_Decision ==
    pc = "write" =>
        /\ decision \in {"DATA", "VOICE"}
        /\ decision = "DATA" <=> energy[1] < data_threshold * energy[2]
        /\ decision = "DATA" => mod_out.kind = "data"
        /\ decision = "VOICE" =>
              /\ mod_out.kind = "voice"
              /\ mod_out.body[1] = "raw"

\* a block whose score equals the threshold went the voice path, after a
\* block that went the data path
C3_Witness ==
    /\ pc = "write" /\ decision = "VOICE"
    /\ energy[1] = data_threshold * energy[2]
    /\ Len(out_stream) >= 1
    /\ out_stream[Len(out_stream)].frame.kind = "data"

\* C6: when the address derivation fails the run stops before the loop:
\* freedv_set_data_header is not given the address, nothing is read and
\* nothing is written
C6_MacErrorStops ==
    ret = <<-1>> =>
        /\ header = <<>>
        /\ reads = 0
        /\ out_stream = <<>>
        /\ pc \in {"setup", "exited"}

\* argv holds a mode that is not accepted, or a file that cannot be opened
ConfigError ==
    /\ Argc(argv) >= 4
    /\ \/ argv[1] \notin {STR_2400A, STR_2400B, STR_800XA}
       \/ (argv[2] # STR_DASH /\ ~FileOpens(argv[2]))
       \/ (argv[3] # STR_DASH /\ ~FileOpens(argv[3]))

\* C10: a configuration error is reported on the diagnostic stream and the
\* process exits with a nonzero status before freedv_open, before any block
\* is read or written
C10_ConfigErrorExit ==
    ConfigError =>
        /\ pc \in {"main", "open_in", "open_out", "exited"}
        /\ ret = <<>> /\ reads = 0 /\ out_stream = <<>>
        /\ pc = "exited" =>
              /\ exit_status # <<0>>
              /\ Len(diag) = 1 /\ diag[1][1] = "stderr"

(***************************************************************************)
(* The two pipeline modes on loud input.                                   *)
(***************************************************************************)
\* block i (1 based) of the input stream
SpeechBlock(i) ==
    SubSeq(in_stream, (i - 1) * NSpeechSamples(mode) + 1,
           i * NSpeechSamples(mode))

\* the sample score of each of the first k blocks is not below data_threshold
LoudBlocks(k) ==
    \A i \in 1..k :
        ~IsQuiet(samples_get_energy(SpeechBlock(i), NSpeechSamples(mode)),
                 data_threshold)

C14_OneAtATime ==
    [][/\ reads' # reads =>
             /\ reads' = reads + 1
             /\ Len(out_stream) = reads
             /\ out_stream' = out_stream
             /\ fout = "stdout" => unflushed = 0
       /\ pc' = "tx" => (reads' = reads + 1 /\ speech_in' = SpeechBlock(reads'))
       /\ pc' = "write" =>
             (pc = "tx" /\ speech_in = SpeechBlock(reads)
              /\ decision' \in {"VOICE", "DATA"})
       /\ out_stream' # out_stream =>
             /\ pc = "write" /\ pc' = "flush"
             /\ reads' = reads /\ reads <= FullBlocks
             /\ Len(out_stream) = reads - 1
             /\ out_stream' = Append(out_stream,
                                     [n |-> NNomModemSamples(mode),
                                      frame |-> mod_out])
       /\ (pc = "flush" /\ fout = "stdout") => unflushed' = 0
       /\ (pc' = "exited" /\ reads > 0) =>
             (Len(out_stream) = reads - 1 /\ reads - 1 = FullBlocks)
      ]_vars

\* with fout = stdout, two blocks are written and flushed and the third read
\* is about to be made
C14_Witness ==
    /\ pc = "read" /\ fout = "stdout"
    /\ reads = 2 /\ Len(out_stream) = 2 /\ unflushed = 0
    /\ FullBlocks >= 3

\* C15: once Setup has derived the address and handed it to
\* freedv_set_data_header, no step changes the six bytes of mac or the
\* header address, my_datatx included, and bytes 6..11 of every packet of
\* size > 0 that my_datatx has stored are that address
C15_MacStable ==
    [][(pc \in {"read", "tx", "write", "flush", "finish"}) =>
          /\ mac' = mac
          /\ header' = header
          /\ header = mac
          /\ size' > 0 => SubSeq(packet', 7, 12) = header]_vars

\* the third call of my_datatx in a run stored the position report with the
\* derived address of a callsign given on the command line
C15_Witness ==
    /\ pc = "write" /\ decision = "DATA" /\ ncalls = 3 /\ size = 22
    /\ ret = <<0>> /\ callsign # STR_NOCALL
    /\ SubSeq(packet, 7, 12) = mac
    /\ mac \notin GarbageMacs

\* the names of the buffers that are live
LiveBuffers == {b.buf : b \in heap.live}

\* C16: the audio block, encoded frame and modem block buffers are each
\* allocated once before the loop and reused: in both modes no step of the
\* loop allocates or releases a buffer, so the live buffers and their sizes
\* are the same at the start of every pass
C16_BuffersOnce ==
    [][(pc \in {"read", "tx", "write", "flush"}) =>
          /\ heap'.allocs = heap.allocs
          /\ heap'.frees = heap.frees
          /\ heap'.live = heap.live
          /\ {"speech_in", "mod_out"} \subseteq LiveBuffers]_vars

\* what does hold: the buffers live at the start of every pass are speech_in
\* and mod_out with their sizes, in both modes, and all are released at return
BuffersAtPassStart ==
    /\ pc \in {"read", "tx", "write", "flush", "finish"} =>
          heap.live = {[buf |-> "speech_in", size |-> NSpeechSamples(mode)],
                       [buf |-> "mod_out", size |-> NNomModemSamples(mode)]}
    /\ pc \in {"read", "tx", "write", "flush", "finish"} =>
          heap.allocs - heap.frees = 2
    /\ (pc = "exited" /\ reads > 0) => heap.live = {}

\* C18: option parsing only uses an argument that exists: once the option
\* loop has run, no conversion was given the null pointer argv[argc], the
\* callsign is not that null pointer, and the process did not die on one
C18_OptionValueExists ==
    (pc \in {"setup", "crashed", "read", "tx", "write", "flush", "finish"}) =>
        /\ pc # "crashed"
        /\ callsign # NULL
        /\ ~ParseOptions(argv).nullconv

\* what does hold: when every value-taking option is followed by another
\* argument, no null pointer is used
OptionsWithValuesAreSafe ==
    (\A i \in 4..Len(argv) :
        (StrEq(argv[i], OPT_CALLSIGN) \/ StrEq(argv[i], OPT_SSID)
         \/ StrEq(argv[i], OPT_MAC_MULTICAST)
         \/ StrEq(argv[i], OPT_DATA_THRESHOLD)) => i + 1 <= Len(argv))
    => (pc # "crashed" /\ callsign # NULL /\ ~ParseOptions(argv).nullconv)

=============================================================================
